---- MODULE Spec2Model ----
(***************************************************************************)
(* Model of the HandTracker component (src/components/HandTracker.tsx) and *)
(* of the consumer state kept by App (src/App.tsx).                        *)
(*                                                                         *)
(* Numbers.  Landmark coordinates are normalized to [0,1] in the program;  *)
(* here a coordinate is an integer number of 1/Grid units, so x = 0..Grid  *)
(* stands for 0..1.  rotation and pitch are kept in the same unit (the     *)
(* value v stands for v/Grid), pinchDistance is kept in thousandths.       *)
(* The hands fed to the loop have every landmark on a ray from the wrist   *)
(* whose direction is a 3-4-5 vector, so that every Euclidean distance the *)
(* program takes is an integer and Math.sqrt is exact on them.             *)
(***************************************************************************)
EXTENDS Integers, Sequences, FiniteSets, TLC

(* ---------------------------------------------------------------- bounds *)
\* coordinate resolution: x, y in 0..Grid stand for 0..1
Grid == 40
\* video.currentTime takes the values 0..MaxTime
MaxTime == 2
\* the Play overlay is clicked while fewer than MaxChains callbacks are pending
MaxChains == 2

(* ------------------------------------------------------ program constants *)
\* distTip > distMcp * 1.1, as the fraction ExtNum / ExtDen
ExtNum == 11
ExtDen == 10
\* pinchDistance published when no hand is detected (0.5), in thousandths
PinchDefault == 500
\* useRef(-1)
InitialVideoTime == -1
\* the value Math.min(Math.max(NaN, 0), 1) yields: not a number, outside [0,1]
NaN == -1

VARIABLES
    phase,            \* "init" (rendered, effects not yet run), "mounted", "unmounted"
    aiState,          \* useState: IDLE, LOADING, READY, ERROR
    cameraState,      \* useState: IDLE, REQUESTING, READY, ERROR, PERM_DENIED
    isPlaying,        \* useState
    aiPc,             \* where initAI is: "idle", "fileset", "gpu", "cpu", "done"
    isMounted,        \* the flag of the initAI effect's closure
    landmarkerRef,    \* "null", "GPU" or "CPU"
    created,          \* the landmarkers createFromOptions has returned
    closed,           \* the landmarkers close() was called on
    camPc,            \* where startCamera is: "idle", "gum", "meta", "play", "done"
    gumSupported,     \* navigator.mediaDevices.getUserMedia exists
    streamRef,        \* 0 (null) or a stream id
    obtained,         \* number of streams getUserMedia has returned
    liveStreams,      \* streams with a track that has not ended
    videoRef,         \* videoRef.current / canvasRef.current are set
    srcObject,        \* video.srcObject: 0 (null) or a stream id
    paused,           \* video.paused
    ended,            \* video.ended
    currentTime,      \* video.currentTime
    clickPlays,       \* play() promises of the Play overlay not yet settled
    pendingRaf,       \* ids of the animation-frame callbacks (predictLoop) pending
    requestRef,       \* requestRef.current
    lastVideoTime,    \* lastVideoTime.current
    lastRotationRef,  \* lastRotationRef.current
    lastPitchRef,     \* lastPitchRef.current
    gestureState,     \* App's useState, set by onGestureUpdate
    last,             \* what the last step did (history)
    detects           \* the detectForVideo calls since currentTime last changed (history)

vars == <<phase, aiState, cameraState, isPlaying, aiPc, isMounted, landmarkerRef,
          created, closed, camPc, gumSupported, streamRef, obtained, liveStreams,
          videoRef, srcObject, paused, ended, currentTime, clickPlays, pendingRaf,
          requestRef, lastVideoTime, lastRotationRef, lastPitchRef, gestureState,
          last, detects>>

aiVars == <<aiState, aiPc, isMounted, landmarkerRef, created, closed>>
camVars == <<cameraState, isPlaying, camPc, streamRef, obtained, liveStreams,
             srcObject, paused, ended, currentTime, clickPlays>>
loopVars == <<pendingRaf, requestRef, lastVideoTime, lastRotationRef, lastPitchRef,
              gestureState>>

(* ------------------------------------------------------------- landmarks *)
\* the landmark indices the program reads
WRIST == 0
LmIdx == {0, 2, 4, 5, 8, 9, 12, 13, 16, 17, 20}

\* Math.sqrt on a perfect square; on other arguments the integer part
Sqrt(n) == CHOOSE r \in 0..n : r * r <= n /\ (r + 1) * (r + 1) > n

\* Math.sqrt(Math.pow(a.x - b.x, 2) + Math.pow(a.y - b.y, 2))
Dist(a, b) == Sqrt((a.x - b.x) * (a.x - b.x) + (a.y - b.y) * (a.y - b.y))

Point(x, y) == [x |-> x, y |-> y]

\* The fingers, as (tip index, MCP index, direction of the finger's ray from the wrist).
\* Every direction has length 5, so a landmark k steps along it is 5k from the wrist.
Fingers == << [tip |-> 4,  mcp |-> 2,  dx |-> -4, dy |-> -3],
              [tip |-> 8,  mcp |-> 5,  dx |-> -3, dy |-> -4],
              [tip |-> 12, mcp |-> 9,  dx |-> 0,  dy |-> -5],
              [tip |-> 16, mcp |-> 13, dx |-> 3,  dy |-> -4],
              [tip |-> 20, mcp |-> 17, dx |-> 4,  dy |-> -3] >>

\* A landmark set: the wrist at (wx, wy), every MCP m steps from it, the tip of finger f
\* ks[f] steps from it.
MkHand(wx, wy, m, ks) ==
    [i \in LmIdx |->
        IF i = WRIST THEN Point(wx, wy)
        ELSE LET f == CHOOSE g \in 1..5 : Fingers[g].tip = i \/ Fingers[g].mcp = i
                 k == IF Fingers[f].tip = i THEN ks[f] ELSE m
             IN Point(wx + k * Fingers[f].dx, wy + k * Fingers[f].dy)]

\* steps of the tips (thumb, index, middle, ring, pinky); the MCPs are 2 steps out, so
\* a tip at 2 steps or less is curled and one at 3 or 4 steps is extended
Poses == { <<4, 4, 4, 4, 4>>,      \* open hand
           <<2, 4, 4, 4, 4>>,      \* four fingers, thumb tucked
           <<2, 2, 2, 2, 2>>,      \* fist: every tip as far out as its MCP
           <<2, 4, 2, 2, 2>>,      \* index alone
           <<4, 4, 2, 2, 2>>,      \* thumb and index ("L"), index high
           <<4, 3, 2, 2, 2>>,      \* thumb and index, index lower
           <<2, 4, 4, 2, 2>>,      \* index and middle
           <<4, 4, 4, 2, 2>>,      \* thumb, index and middle
           <<2, 2, 4, 4, 2>> }     \* middle and ring
WristXs == {16}
WristYs == {30}

\* hands with long or short fingers: thumb out, index and middle far out with ring and
\* pinky curled (wrist at the bottom edge), and thumb and index out with the other
\* tips at the wrist
OddHands == { MkHand(24, 40, 2, <<4, 7, 7, 2, 2>>),
              MkHand(24, 30, 2, <<4, 3, 0, 0, 0>>) }

\* degenerate landmark sets: every MCP joint on the wrist, with the tips on the wrist
\* too or away from it
DegenerateHands == { MkHand(24, 30, 0, <<0, 0, 0, 0, 0>>),
                     MkHand(24, 30, 0, <<0, 2, 2, 0, 0>>) }

\* A landmark set with the fingers on the given rays (thumb to pinky, each of length 5)
MkHandOn(rays, wx, wy, m, ks) ==
    [i \in LmIdx |->
        IF i = WRIST THEN Point(wx, wy)
        ELSE LET f == CHOOSE g \in 1..5 : Fingers[g].tip = i \/ Fingers[g].mcp = i
                 k == IF Fingers[f].tip = i THEN ks[f] ELSE m
             IN Point(wx + k * rays[f][1], wy + k * rays[f][2])]

\* hands at the edges of the image: an open hand with the wrist on the left edge and
\* one with the wrist on the right edge, and thumb and index out with the index tip on
\* the top edge and on the bottom edge
EdgeHands ==
    { MkHandOn(<< <<0, -5>>, <<3, -4>>, <<4, -3>>, <<5, 0>>, <<4, 3>> >>,
               0, 20, 2, <<4, 4, 4, 4, 4>>),
      MkHandOn(<< <<0, -5>>, <<-3, -4>>, <<-4, -3>>, <<-5, 0>>, <<-4, 3>> >>,
               Grid, 20, 2, <<4, 4, 4, 4, 4>>),
      MkHandOn(<< <<-4, -3>>, <<-3, -4>>, <<0, -5>>, <<3, -4>>, <<4, -3>> >>,
               24, 12, 2, <<4, 3, 2, 2, 2>>),
      MkHandOn(<< <<-4, 3>>, <<-3, 4>>, <<0, 5>>, <<3, 4>>, <<4, 3>> >>,
               24, Grid - 12, 2, <<4, 3, 2, 2, 2>>) }

\* the landmark sets detectForVideo returns in the model: x, y within 0..Grid
Hands == { MkHand(wx, wy, 2, ks) : wx \in WristXs, wy \in WristYs, ks \in Poses }
         \cup OddHands \cup DegenerateHands
\* a further hand of a multi-hand result
ExtraHands == { MkHand(24, 30, 2, <<4, 4, 4, 4, 4>>),
                MkHand(16, 30, 2, <<4, 3, 2, 2, 2>>) }

\* the first hands of the multi-hand results
FirstOfTwo == { MkHand(16, 30, 2, <<4, 4, 4, 4, 4>>),
                MkHand(16, 30, 2, <<2, 4, 4, 2, 2>>) }

\* result.landmarks: no hand, one hand, or two
Results == {<<>>} \cup { <<h>> : h \in Hands }
                  \cup { <<h, g>> : h \in FirstOfTwo, g \in ExtraHands }

(* --------------------------------------------- feature extraction, gesture *)
\* distTip > distMcp * 1.1
isFingerExtended(landmarks, tipIdx, mcpIdx) ==
    LET distTip == Dist(landmarks[tipIdx], landmarks[WRIST])
        distMcp == Dist(landmarks[mcpIdx], landmarks[WRIST])
    IN distTip * ExtDen > distMcp * ExtNum

B2N(b) == IF b THEN 1 ELSE 0

\* the classification with VICTORY kept for a tucked thumb
Gesture_VictoryNoThumb(landmarks) ==
    LET thumbExt == isFingerExtended(landmarks, 4, 2)
        indexExt == isFingerExtended(landmarks, 8, 5)
        middleExt == isFingerExtended(landmarks, 12, 9)
        ringExt == isFingerExtended(landmarks, 16, 13)
        pinkyExt == isFingerExtended(landmarks, 20, 17)
        extendedCount == B2N(thumbExt) + B2N(indexExt) + B2N(middleExt)
                         + B2N(ringExt) + B2N(pinkyExt)
    IN IF extendedCount = 5 \/ extendedCount = 4 THEN "OPEN"
       ELSE IF extendedCount = 0 \/ extendedCount = 1 THEN "CLOSED"
       ELSE IF ~thumbExt /\ indexExt /\ middleExt /\ ~ringExt /\ ~pinkyExt THEN "VICTORY"
       ELSE IF indexExt /\ ~middleExt /\ ~ringExt /\ ~pinkyExt THEN "POINTING"
       ELSE "NEUTRAL"

\* the gesture classification of predictLoop
Gesture(landmarks) ==
    LET thumbExt == isFingerExtended(landmarks, 4, 2)
        indexExt == isFingerExtended(landmarks, 8, 5)
        middleExt == isFingerExtended(landmarks, 12, 9)
        ringExt == isFingerExtended(landmarks, 16, 13)
        pinkyExt == isFingerExtended(landmarks, 20, 17)
        extendedCount == B2N(thumbExt) + B2N(indexExt) + B2N(middleExt)
                         + B2N(ringExt) + B2N(pinkyExt)
    IN IF extendedCount = 5 \/ extendedCount = 4 THEN "OPEN"
       ELSE IF extendedCount = 0 \/ extendedCount = 1 THEN "CLOSED"
       ELSE IF indexExt /\ middleExt /\ ~ringExt /\ ~pinkyExt THEN "VICTORY"
       ELSE IF indexExt /\ ~middleExt /\ ~ringExt /\ ~pinkyExt THEN "POINTING"
       ELSE "NEUTRAL"

\* the yaw without the shift that centres it: (1 - landmarks[0].x) * 2
Rotation_NotCentred(landmarks) == (Grid - landmarks[WRIST].x) * 2

\* (1 - landmarks[0].x) * 2 - 1, in 1/Grid units
Rotation(landmarks) == (Grid - landmarks[WRIST].x) * 2 - Grid

\* (landmarks[8].y - 0.5) * 2, in 1/Grid units
Pitch(landmarks) == 2 * landmarks[8].y - Grid

Min(a, b) == IF a < b THEN a ELSE b
Max(a, b) == IF a > b THEN a ELSE b

\* Math.min(Math.max((avgTipDist / 4) / (mcpDist * 2.5), 0), 1), in thousandths
\* (rounded down): (a / 4) / (m * 2.5) = a / (10 m), and 1000 a / (10 m) = 100 a / m.
\* A zero mcpDist divides by zero: x / 0 is Infinity (clamped to 1) and 0 / 0 is NaN,
\* which Math.max and Math.min hand through.
Openness(landmarks) ==
    LET avgTipDist == Dist(landmarks[8], landmarks[WRIST]) + Dist(landmarks[12], landmarks[WRIST])
                      + Dist(landmarks[16], landmarks[WRIST]) + Dist(landmarks[20], landmarks[WRIST])
        mcpDist == Dist(landmarks[9], landmarks[WRIST])
    IN IF mcpDist = 0
       THEN (IF avgTipDist = 0 THEN NaN ELSE 1000)
       ELSE Min(Max((100 * avgTipDist) \div mcpDist, 0), 1000)

(* ------------------------------------------------------------------ state *)
\* what a step did: op names the operation; for a predictLoop cycle kind is "idle"
\* (the outer guard failed), "skip" (currentTime not advanced), "throw", "noctx",
\* "nohand" or "hand", detect says detectForVideo was called, emits counts the calls of
\* onGestureUpdate, and raf says requestAnimationFrame was called; for a "hand" cycle
\* landmarks is the landmark set the cycle used and hands the number of sets
\* detectForVideo returned; for a rejection of getUserMedia kind is the error it
\* rejected with
Did(op, kind, detect, emits, raf) ==
    [op |-> op, kind |-> kind, detect |-> detect, emits |-> emits, raf |-> raf,
     landmarks |-> <<>>, hands |-> 0]

Note(op) == Did(op, "na", FALSE, 0, FALSE)

\* detects: count is the number of detectForVideo calls made while video.currentTime
\* has had its present value, threw says that the latest of them threw
NoDetects == [count |-> 0, threw |-> FALSE]

\* App: useState<HandGestureState>({...})
InitialGestureState ==
    [isHandDetected |-> FALSE, gesture |-> "NEUTRAL", rotation |-> 0, pitch |-> 0,
     pinchDistance |-> PinchDefault]

Init ==
    /\ phase = "init"
    /\ aiState = "IDLE"
    /\ cameraState = "IDLE"
    /\ isPlaying = FALSE
    /\ aiPc = "idle"
    /\ isMounted = FALSE
    /\ landmarkerRef = "null"
    /\ created = {}
    /\ closed = {}
    /\ camPc = "idle"
    /\ gumSupported \in BOOLEAN
    /\ streamRef = 0
    /\ obtained = 0
    /\ liveStreams = {}
    /\ videoRef = TRUE
    /\ srcObject = 0
    /\ paused = TRUE
    /\ ended = FALSE
    /\ currentTime = 0
    /\ clickPlays = 0
    /\ pendingRaf = {}
    /\ requestRef = 0
    /\ lastVideoTime = InitialVideoTime
    /\ lastRotationRef = 0
    /\ lastPitchRef = 0
    /\ gestureState = InitialGestureState
    /\ last = Note("init")
    /\ detects = NoDetects

\* a consumer that merges an update into its state, keeping the pinchDistance it had
setGestureState_Merge(prev, new) == [new EXCEPT !.pinchDistance = prev.pinchDistance]

\* onGestureUpdate={setGestureState}: App's state setter, called with a value, replaces
\* the whole state
setGestureState(prev, new) == new

\* A state setter of useState: React drops the update of an unmounted component.
setState(cur, new) == IF phase = "unmounted" THEN cur ELSE new

\* The id requestAnimationFrame returns.  Ids are only ever compared for equality
\* (cancelAnimationFrame), so the smallest id that is neither pending nor held in
\* requestRef stands for the browser's next id.
NewRafId(pending) ==
    CHOOSE n \in 1..(Cardinality(pending) + 2) :
        /\ n \notin pending /\ n # requestRef
        /\ \A m \in 1..(n - 1) : m \in pending \/ m = requestRef

\* detects is reset whenever video.currentTime takes another value
DetectsAfter(newTime) == IF newTime = currentTime THEN detects ELSE NoDetects

(* ----------------------------------------------------------------- camera *)
\* stopCamera that forgets the stream without stopping its tracks
stopCamera_KeepsTracks(hasVideo) ==
    /\ liveStreams' = liveStreams
    /\ streamRef' = 0
    /\ srcObject' = IF hasVideo THEN 0 ELSE srcObject
    /\ paused' = IF hasVideo THEN TRUE ELSE paused
    /\ ended' = IF hasVideo THEN FALSE ELSE ended
    /\ currentTime' = IF hasVideo THEN 0 ELSE currentTime
    /\ detects' = DetectsAfter(IF hasVideo THEN 0 ELSE currentTime)
    /\ isPlaying' = setState(isPlaying, FALSE)

\* stopCamera; hasVideo is videoRef.current being set.  Setting srcObject to null
\* resets the media element: it is paused, not ended, at time 0.  Without the element
\* the stopped tracks leave the stream it shows inactive, so the video has ended.
stopCamera(hasVideo) ==
    /\ liveStreams' = liveStreams \ {streamRef}
    /\ streamRef' = 0
    /\ srcObject' = IF hasVideo THEN 0 ELSE srcObject
    /\ paused' = IF hasVideo THEN TRUE ELSE paused
    /\ ended' = IF hasVideo THEN FALSE
                ELSE (ended \/ (streamRef # 0 /\ srcObject = streamRef))
    /\ currentTime' = IF hasVideo THEN 0 ELSE currentTime
    /\ detects' = DetectsAfter(IF hasVideo THEN 0 ELSE currentTime)
    /\ isPlaying' = setState(isPlaying, FALSE)

\* startCamera that calls getUserMedia without announcing the request
startCamera_NoRequesting ==
    /\ stopCamera(videoRef)
    /\ IF ~gumSupported
       THEN cameraState' = setState(cameraState, "ERROR") /\ camPc' = "done"
       ELSE cameraState' = cameraState /\ camPc' = "gum"
    /\ UNCHANGED <<obtained, clickPlays>>

\* startCamera up to its await of getUserMedia
startCamera ==
    /\ stopCamera(videoRef)
    /\ IF ~gumSupported
       THEN cameraState' = setState(cameraState, "ERROR") /\ camPc' = "done"
       ELSE cameraState' = setState(cameraState, "REQUESTING") /\ camPc' = "gum"
    /\ UNCHANGED <<obtained, clickPlays>>

\* getUserMedia resolves with a stream: startCamera stores and attaches it
GumResolved ==
    /\ camPc = "gum"
    /\ LET stream == obtained + 1 IN
        /\ obtained' = stream
        /\ liveStreams' = liveStreams \cup {stream}
        /\ streamRef' = stream
        /\ IF videoRef
           THEN srcObject' = stream /\ paused' = TRUE /\ ended' = FALSE
                /\ currentTime' = 0 /\ detects' = DetectsAfter(0) /\ camPc' = "meta"
           ELSE UNCHANGED <<srcObject, paused, ended, currentTime, detects>>
                /\ camPc' = "done"
    /\ last' = Note("GumResolved")
    /\ UNCHANGED <<phase, cameraState, isPlaying, gumSupported, videoRef, clickPlays>>
    /\ UNCHANGED aiVars
    /\ UNCHANGED loopVars

\* the errors getUserMedia rejects with: the user or the browser denies the permission,
\* or the device cannot be read just now (in use by another application)
GumErrors == {"NotAllowedError", "NotReadableError"}

\* getUserMedia rejects (permission denied or any other error): the catch block
GumRejected ==
    /\ camPc = "gum"
    /\ cameraState' = setState(cameraState, "PERM_DENIED")
    /\ camPc' = "done"
    /\ \E error \in GumErrors : last' = Did("GumRejected", error, FALSE, 0, FALSE)
    /\ UNCHANGED <<phase, isPlaying, gumSupported, streamRef, obtained, liveStreams,
                   videoRef, srcObject, paused, ended, currentTime, clickPlays,
                   detects>>
    /\ UNCHANGED aiVars
    /\ UNCHANGED loopVars

\* onloadedmetadata fires and play() is allowed: the video stops being paused at once
\* and the promise is settled later
LoadedMetadataPlay ==
    /\ camPc = "meta"
    /\ videoRef
    /\ paused' = FALSE
    /\ camPc' = "play"
    /\ last' = Note("LoadedMetadataPlay")
    /\ UNCHANGED <<phase, cameraState, isPlaying, gumSupported, streamRef, obtained,
                   liveStreams, videoRef, srcObject, ended, currentTime, clickPlays,
                   detects>>
    /\ UNCHANGED aiVars
    /\ UNCHANGED loopVars

\* onloadedmetadata fires and the browser blocks autoplay: play() rejects, the catch
\* callback runs
LoadedMetadataBlocked ==
    /\ camPc = "meta"
    /\ videoRef
    /\ cameraState' = setState(cameraState, "READY")
    /\ isPlaying' = setState(isPlaying, FALSE)
    /\ camPc' = "done"
    /\ last' = Note("LoadedMetadataBlocked")
    /\ UNCHANGED <<phase, gumSupported, streamRef, obtained, liveStreams, videoRef,
                   srcObject, paused, ended, currentTime, clickPlays, detects>>
    /\ UNCHANGED aiVars
    /\ UNCHANGED loopVars

\* the play() promise of startCamera resolves: the then callback
PlayResolved ==
    /\ camPc = "play"
    /\ isPlaying' = setState(isPlaying, TRUE)
    /\ cameraState' = setState(cameraState, "READY")
    /\ pendingRaf' = pendingRaf \cup {NewRafId(pendingRaf)}
    /\ camPc' = "done"
    /\ last' = Did("PlayResolved", "na", FALSE, 0, TRUE)
    /\ UNCHANGED <<phase, gumSupported, streamRef, obtained, liveStreams, videoRef,
                   srcObject, paused, ended, currentTime, clickPlays, detects>>
    /\ UNCHANGED aiVars
    /\ UNCHANGED <<requestRef, lastVideoTime, lastRotationRef, lastPitchRef, gestureState>>

\* the play() promise of startCamera rejects after play() was let through (the load
\* was aborted): the video is paused again, the catch callback runs
PlayRejected ==
    /\ camPc = "play"
    /\ paused' = TRUE
    /\ cameraState' = setState(cameraState, "READY")
    /\ isPlaying' = setState(isPlaying, FALSE)
    /\ camPc' = "done"
    /\ last' = Note("PlayRejected")
    /\ UNCHANGED <<phase, gumSupported, streamRef, obtained, liveStreams, videoRef,
                   srcObject, ended, currentTime, clickPlays, detects>>
    /\ UNCHANGED aiVars
    /\ UNCHANGED loopVars

\* a retry button that starts the model loading again along with the camera
handleManualStart_ReloadsModel ==
    /\ phase = "mounted"
    /\ \/ cameraState = "PERM_DENIED" \/ cameraState = "ERROR"
       \/ (cameraState = "IDLE" /\ aiState = "ERROR")
    /\ startCamera
    /\ aiState' = "LOADING"
    /\ aiPc' = "fileset"
    /\ last' = Note("handleManualStart")
    /\ UNCHANGED <<phase, gumSupported, videoRef>>
    /\ UNCHANGED <<isMounted, landmarkerRef, created, closed>>
    /\ UNCHANGED loopVars

\* The Retry / Enable Camera buttons, shown when cameraState is PERM_DENIED or ERROR,
\* or when cameraState is IDLE and aiState is ERROR
handleManualStart ==
    /\ phase = "mounted"
    /\ \/ cameraState = "PERM_DENIED"
       \/ cameraState = "ERROR"
       \/ (cameraState = "IDLE" /\ aiState = "ERROR")
    /\ startCamera
    /\ last' = Note("handleManualStart")
    /\ UNCHANGED <<phase, gumSupported, videoRef>>
    /\ UNCHANGED aiVars
    /\ UNCHANGED loopVars

\* The Play overlay, shown when cameraState is READY and isPlaying is false (and the
\* overlays renderStatus returns before it are not shown): play() on a user gesture is
\* let through, and an animation frame is requested without waiting for the promise
PlayClick ==
    /\ phase = "mounted"
    /\ cameraState = "READY" /\ ~isPlaying /\ aiState # "LOADING"
    /\ videoRef
    /\ Cardinality(pendingRaf) < MaxChains
    /\ paused' = FALSE
    /\ clickPlays' = clickPlays + 1
    /\ pendingRaf' = pendingRaf \cup {NewRafId(pendingRaf)}
    /\ last' = Did("PlayClick", "na", FALSE, 0, TRUE)
    /\ UNCHANGED <<phase, cameraState, isPlaying, camPc, gumSupported, streamRef,
                   obtained, liveStreams, videoRef, srcObject, ended, currentTime,
                   detects>>
    /\ UNCHANGED aiVars
    /\ UNCHANGED <<requestRef, lastVideoTime, lastRotationRef, lastPitchRef, gestureState>>

\* a play() promise of the Play overlay resolves: setIsPlaying(true)
ClickPlayResolved ==
    /\ clickPlays > 0
    /\ clickPlays' = clickPlays - 1
    /\ isPlaying' = setState(isPlaying, TRUE)
    /\ last' = Note("ClickPlayResolved")
    /\ UNCHANGED <<phase, cameraState, camPc, gumSupported, streamRef, obtained,
                   liveStreams, videoRef, srcObject, paused, ended, currentTime,
                   detects>>
    /\ UNCHANGED aiVars
    /\ UNCHANGED loopVars

\* the playing video presents its next frame
VideoAdvance ==
    /\ ~paused /\ ~ended
    /\ srcObject # 0 /\ srcObject \in liveStreams
    /\ currentTime < MaxTime
    /\ currentTime' = currentTime + 1
    /\ detects' = NoDetects
    /\ last' = Note("VideoAdvance")
    /\ UNCHANGED <<phase, cameraState, isPlaying, camPc, gumSupported, streamRef,
                   obtained, liveStreams, videoRef, srcObject, paused, ended, clickPlays>>
    /\ UNCHANGED aiVars
    /\ UNCHANGED loopVars

\* the camera goes away (unplugged, revoked): the tracks of a live stream end
TrackEnded ==
    /\ \E stream \in liveStreams :
        /\ liveStreams' = liveStreams \ {stream}
        /\ ended' = (ended \/ srcObject = stream)
    /\ last' = Note("TrackEnded")
    /\ UNCHANGED <<phase, cameraState, isPlaying, camPc, gumSupported, streamRef,
                   obtained, videoRef, srcObject, paused, currentTime, clickPlays,
                   detects>>
    /\ UNCHANGED aiVars
    /\ UNCHANGED loopVars

(* --------------------------------------------------------------- model init *)
\* FilesetResolver.forVisionTasks resolves: return when unmounted, else create on GPU
FilesetResolved ==
    /\ aiPc = "fileset"
    /\ aiPc' = IF ~isMounted THEN "done" ELSE "gpu"
    /\ last' = Note("FilesetResolved")
    /\ UNCHANGED <<aiState, isMounted, landmarkerRef, created, closed>>
    /\ UNCHANGED <<phase, gumSupported, videoRef, detects>>
    /\ UNCHANGED camVars
    /\ UNCHANGED loopVars

\* FilesetResolver.forVisionTasks rejects: the outer catch
FilesetRejected ==
    /\ aiPc = "fileset"
    /\ aiState' = IF isMounted THEN setState(aiState, "ERROR") ELSE aiState
    /\ aiPc' = "done"
    /\ last' = Note("FilesetRejected")
    /\ UNCHANGED <<isMounted, landmarkerRef, created, closed>>
    /\ UNCHANGED <<phase, gumSupported, videoRef, detects>>
    /\ UNCHANGED camVars
    /\ UNCHANGED loopVars

\* createFromOptions resolves, the result stored without looking at isMounted
Created_Unguarded(delegate) ==
    /\ created' = created \cup {delegate}
    /\ landmarkerRef' = delegate
    /\ aiState' = setState(aiState, "READY")
    /\ aiPc' = "done"
    /\ UNCHANGED <<isMounted, closed>>

\* createFromOptions resolves with a landmarker (delegate "GPU" or "CPU")
Created(delegate) ==
    /\ created' = created \cup {delegate}
    /\ landmarkerRef' = IF isMounted THEN delegate ELSE landmarkerRef
    /\ aiState' = IF isMounted THEN setState(aiState, "READY") ELSE aiState
    /\ aiPc' = "done"
    /\ UNCHANGED <<isMounted, closed>>

GpuResolved ==
    /\ aiPc = "gpu"
    /\ Created("GPU")
    /\ last' = Note("GpuResolved")
    /\ UNCHANGED <<phase, gumSupported, videoRef, detects>>
    /\ UNCHANGED camVars
    /\ UNCHANGED loopVars

\* a GPU attempt whose rejection ends the initialization
GpuRejected_NoFallback ==
    /\ aiPc = "gpu"
    /\ aiState' = IF isMounted THEN setState(aiState, "ERROR") ELSE aiState
    /\ aiPc' = "done"
    /\ last' = Note("GpuRejected")
    /\ UNCHANGED <<isMounted, landmarkerRef, created, closed>>
    /\ UNCHANGED <<phase, gumSupported, videoRef, detects>>
    /\ UNCHANGED camVars
    /\ UNCHANGED loopVars

\* the GPU attempt rejects: the inner catch creates on CPU
GpuRejected ==
    /\ aiPc = "gpu"
    /\ aiPc' = "cpu"
    /\ last' = Note("GpuRejected")
    /\ UNCHANGED <<aiState, isMounted, landmarkerRef, created, closed>>
    /\ UNCHANGED <<phase, gumSupported, videoRef, detects>>
    /\ UNCHANGED camVars
    /\ UNCHANGED loopVars

CpuResolved ==
    /\ aiPc = "cpu"
    /\ Created("CPU")
    /\ last' = Note("CpuResolved")
    /\ UNCHANGED <<phase, gumSupported, videoRef, detects>>
    /\ UNCHANGED camVars
    /\ UNCHANGED loopVars

\* the CPU attempt rejects too: the outer catch
CpuRejected ==
    /\ aiPc = "cpu"
    /\ aiState' = IF isMounted THEN setState(aiState, "ERROR") ELSE aiState
    /\ aiPc' = "done"
    /\ last' = Note("CpuRejected")
    /\ UNCHANGED <<isMounted, landmarkerRef, created, closed>>
    /\ UNCHANGED <<phase, gumSupported, videoRef, detects>>
    /\ UNCHANGED camVars
    /\ UNCHANGED loopVars

(* ------------------------------------------------------- mount and unmount *)
\* The two effects run after the first render: initAI up to its first await, then
\* startCamera up to its await
Mount ==
    /\ phase = "init"
    /\ phase' = "mounted"
    /\ isMounted' = TRUE
    /\ aiState' = "LOADING"
    /\ aiPc' = "fileset"
    /\ startCamera
    /\ last' = Note("Mount")
    /\ UNCHANGED <<landmarkerRef, created, closed, gumSupported, videoRef>>
    /\ UNCHANGED loopVars

\* The component is torn down: the cleanup of the initAI effect, then the cleanup of
\* the camera effect.  React detaches videoRef and canvasRef on unmount; whether it has
\* done so before the cleanups run depends on the React version (hasVideo).  The play()
\* promises of the Play overlay only call a state setter, which does nothing any more.
\* Setting srcObject to null rejects the pending play() promise of startCamera, whose
\* catch callback only calls state setters; without that the promise stays pending.
Unmount ==
    /\ phase = "mounted"
    /\ phase' = "unmounted"
    /\ isMounted' = FALSE
    /\ closed' = IF landmarkerRef # "null" THEN closed \cup {landmarkerRef} ELSE closed
    /\ \E hasVideo \in BOOLEAN :
        /\ stopCamera(hasVideo)
        /\ camPc' = IF camPc = "meta" \/ (camPc = "play" /\ hasVideo) THEN "done" ELSE camPc
    /\ pendingRaf' = IF requestRef # 0 THEN pendingRaf \ {requestRef} ELSE pendingRaf
    /\ videoRef' = FALSE
    /\ clickPlays' = 0
    /\ last' = Note("Unmount")
    /\ UNCHANGED <<aiState, aiPc, landmarkerRef, created, cameraState, gumSupported,
                   obtained, requestRef, lastVideoTime, lastRotationRef, lastPitchRef,
                   gestureState>>

(* ---------------------------------------------------------- prediction loop *)
\* what one cycle computes from a landmark set alone: the gesture, the yaw and pitch
\* the set maps to, and the openness (tabulated once for the hands of the model)
Features(landmarks) ==
    [gesture |-> Gesture(landmarks), rotation |-> Rotation(landmarks),
     pitch |-> Pitch(landmarks), openness |-> Openness(landmarks)]

FeatureTable == [h \in Hands \cup ExtraHands \cup EdgeHands |-> Features(h)]

\* HandState with the yaw written on every hand-detected frame (no gesture gate)
HandState_YawUngated(landmarks) ==
    LET f == FeatureTable[landmarks]
    IN [isHandDetected |-> TRUE,
        gesture |-> f.gesture,
        rotation |-> f.rotation,
        pitch |-> IF f.gesture = "POINTING" THEN f.pitch ELSE lastPitchRef,
        pinchDistance |-> f.openness]

\* HandState with the pitch written on every frame that is not OPEN
HandState_PitchUngated(landmarks) ==
    LET f == FeatureTable[landmarks]
    IN [isHandDetected |-> TRUE,
        gesture |-> f.gesture,
        rotation |-> IF f.gesture = "OPEN" THEN f.rotation ELSE lastRotationRef,
        pitch |-> IF f.gesture # "OPEN" THEN f.pitch ELSE lastPitchRef,
        pinchDistance |-> f.openness]

\* the state onGestureUpdate is called with when a hand is detected
HandState(landmarks) ==
    LET f == FeatureTable[landmarks]
    IN [isHandDetected |-> TRUE,
        gesture |-> f.gesture,
        rotation |-> IF f.gesture = "OPEN" THEN f.rotation ELSE lastRotationRef,
        pitch |-> IF f.gesture = "POINTING" THEN f.pitch ELSE lastPitchRef,
        pinchDistance |-> f.openness]

\* NoHandState with yaw and pitch snapped back to 0
NoHandState_Reset ==
    [isHandDetected |-> FALSE, gesture |-> "NEUTRAL", rotation |-> 0,
     pitch |-> 0, pinchDistance |-> PinchDefault]

\* the state onGestureUpdate is called with when no hand is detected
NoHandState ==
    [isHandDetected |-> FALSE, gesture |-> "NEUTRAL", rotation |-> lastRotationRef,
     pitch |-> lastPitchRef, pinchDistance |-> PinchDefault]

\* CanPredict with the test of landmarkerRef.current alone
CanPredict_LandmarkerOnly == landmarkerRef # "null"

\* CanPredict without the test of video.paused and video.ended
CanPredict_NoPlaybackCheck == videoRef /\ landmarkerRef # "null"

\* the guard of the outer if of predictLoop
CanPredict == videoRef /\ landmarkerRef # "null" /\ ~paused /\ ~ended

\* FrameAdvanced without the comparison with lastVideoTime
FrameAdvanced_Always == TRUE

\* "Only predict if video has progressed"
FrameAdvanced == currentTime # lastVideoTime

\* Emitted with the hand taken from the end of result.landmarks
Emitted_LastHand(threw, ctxOk, result) ==
    IF threw THEN <<>>
    ELSE IF ~ctxOk THEN <<>>
    ELSE IF Len(result) > 0 THEN <<HandState(result[Len(result)])>>
    ELSE <<NoHandState>>

\* Emitted with a catch block that publishes the no-hand defaults
Emitted_DefaultOnThrow(threw, ctxOk, result) ==
    IF threw THEN <<NoHandState>>
    ELSE IF ~ctxOk THEN <<>>
    ELSE IF Len(result) > 0 THEN <<HandState(result[1])>>
    ELSE <<NoHandState>>

\* The states onGestureUpdate is called with, in order, in a cycle that calls
\* detectForVideo.  threw: the call throws; ctxOk: canvas.getContext('2d') returns a
\* context; result: result.landmarks, of which the first set is used.
Emitted(threw, ctxOk, result) ==
    IF threw THEN <<>>
    ELSE IF ~ctxOk THEN <<>>
    ELSE IF Len(result) > 0 THEN <<HandState(result[1])>>
    ELSE <<NoHandState>>

\* what such a cycle was, for the history
Kind(threw, ctxOk, result) ==
    IF threw THEN "throw"
    ELSE IF ~ctxOk THEN "noctx"
    ELSE IF Len(result) > 0 THEN "hand"
    ELSE "nohand"

\* Committed with the stored values cleared by a cycle that finds no hand
Committed_ResetOnNoHand(threw, ctxOk, result) ==
    IF ~threw /\ ctxOk /\ Len(result) > 0
    THEN LET state == HandState(result[1])
         IN [rotation |-> state.rotation, pitch |-> state.pitch]
    ELSE IF ~threw /\ ctxOk THEN [rotation |-> 0, pitch |-> 0]
    ELSE [rotation |-> lastRotationRef, pitch |-> lastPitchRef]

\* Committed with nothing written back to the refs
Committed_NotStored(threw, ctxOk, result) ==
    [rotation |-> lastRotationRef, pitch |-> lastPitchRef]

\* lastRotationRef.current and lastPitchRef.current after such a cycle
Committed(threw, ctxOk, result) ==
    IF ~threw /\ ctxOk /\ Len(result) > 0
    THEN LET state == HandState(result[1])
         IN [rotation |-> state.rotation, pitch |-> state.pitch]
    ELSE [rotation |-> lastRotationRef, pitch |-> lastPitchRef]

\* Escapes without the try/catch
Escapes_NoCatch(threw) == threw

\* try { ... } catch (e) { console.warn(...) }: an exception of detectForVideo does not
\* leave predictLoop
Escapes(threw) == FALSE

\* One run of the animation-frame callback id, the whole of predictLoop: the cycle,
\* then requestRef.current = requestAnimationFrame(predictLoop), which an exception
\* leaving the function would skip.
predictLoop(id, threw, ctxOk, result) ==
    /\ id \in pendingRaf
    /\ IF CanPredict /\ FrameAdvanced
       THEN LET emitted == Emitted(threw, ctxOk, result)
                refs == Committed(threw, ctxOk, result)
            IN /\ lastVideoTime' = currentTime
               /\ detects' = [count |-> detects.count + 1, threw |-> threw]
               /\ lastRotationRef' = refs.rotation
               /\ lastPitchRef' = refs.pitch
               /\ gestureState' = IF emitted = <<>> THEN gestureState
                                  ELSE setGestureState(gestureState, emitted[Len(emitted)])
               /\ last' = [Did("predictLoop", Kind(threw, ctxOk, result), TRUE,
                               Len(emitted), ~Escapes(threw))
                           EXCEPT !.landmarks = IF Kind(threw, ctxOk, result) = "hand"
                                                THEN result[1] ELSE <<>>,
                                  !.hands = IF Kind(threw, ctxOk, result) = "hand"
                                            THEN Len(result) ELSE 0]
       ELSE /\ UNCHANGED <<lastVideoTime, detects, lastRotationRef, lastPitchRef,
                           gestureState>>
            /\ last' = Did("predictLoop", IF CanPredict THEN "skip" ELSE "idle",
                           FALSE, 0, TRUE)
    /\ LET rest == pendingRaf \ {id}
           next == NewRafId(rest)
       IN IF CanPredict /\ FrameAdvanced /\ Escapes(threw)
          THEN pendingRaf' = rest /\ UNCHANGED requestRef
          ELSE requestRef' = next /\ pendingRaf' = rest \cup {next}
    /\ UNCHANGED <<phase, gumSupported, videoRef>>
    /\ UNCHANGED aiVars
    /\ UNCHANGED camVars

\* the outcomes of one detectForVideo call and of getContext: the call throws, or it
\* returns and there is no 2D context, or it returns result.landmarks and there is one
\* (what a throwing call would have returned, and what is returned when nothing is
\* drawn, changes nothing)
Outcomes ==
    {[threw |-> TRUE, ctxOk |-> TRUE, result |-> <<>>],
     [threw |-> FALSE, ctxOk |-> FALSE, result |-> <<>>]}
    \cup {[threw |-> FALSE, ctxOk |-> TRUE, result |-> r] : r \in Results}

\* a cycle that calls detectForVideo, with every outcome of the call
PredictFrame ==
    /\ CanPredict /\ FrameAdvanced
    /\ \E id \in pendingRaf, o \in Outcomes : predictLoop(id, o.threw, o.ctxOk, o.result)

\* a cycle that does not
PredictNothing ==
    /\ ~(CanPredict /\ FrameAdvanced)
    /\ \E id \in pendingRaf : predictLoop(id, FALSE, TRUE, <<>>)

Next ==
    \/ Mount
    \/ Unmount
    \/ FilesetResolved
    \/ FilesetRejected
    \/ GpuResolved
    \/ GpuRejected
    \/ CpuResolved
    \/ CpuRejected
    \/ GumResolved
    \/ GumRejected
    \/ LoadedMetadataPlay
    \/ LoadedMetadataBlocked
    \/ PlayResolved
    \/ PlayRejected
    \/ handleManualStart
    \/ PlayClick
    \/ ClickPlayResolved
    \/ VideoAdvance
    \/ TrackEnded
    \/ PredictFrame
    \/ PredictNothing

Spec == Init /\ [][Next]_vars

\* The browser runs every settled promise's continuation and every animation-frame
\* callback that stays pending, and a user who is shown a Retry / Enable Camera button
\* again and again presses it.
FairSpec == Spec /\ WF_vars(Next) /\ SF_vars(handleManualStart)

\* The state in which tracking starts: the model was created on the GPU, the camera
\* stream plays, and the play() callback of startCamera has requested the first frame.
Tracking ==
    /\ phase = "mounted"
    /\ aiState = "READY"
    /\ cameraState = "READY"
    /\ isPlaying = TRUE
    /\ aiPc = "done"
    /\ isMounted = TRUE
    /\ landmarkerRef = "GPU"
    /\ created = {"GPU"}
    /\ closed = {}
    /\ camPc = "done"
    /\ gumSupported = TRUE
    /\ streamRef = 1
    /\ obtained = 1
    /\ liveStreams = {1}
    /\ videoRef = TRUE
    /\ srcObject = 1
    /\ paused = FALSE
    /\ ended = FALSE
    /\ currentTime = 0
    /\ clickPlays = 0
    /\ pendingRaf = {1}
    /\ requestRef = 0
    /\ lastVideoTime = InitialVideoTime
    /\ lastRotationRef = 0
    /\ lastPitchRef = 0
    /\ gestureState = InitialGestureState
    /\ last = Did("PlayResolved", "na", FALSE, 0, TRUE)
    /\ detects = NoDetects

\* a cycle that calls detectForVideo on a frame showing a hand at an edge of the image
PredictEdgeFrame ==
    /\ CanPredict /\ FrameAdvanced
    /\ \E id \in pendingRaf, h \in EdgeHands : predictLoop(id, FALSE, TRUE, <<h>>)

\* the steady state of the loop, fed with the hands at the edges of the image
EdgeNext ==
    \/ VideoAdvance
    \/ PredictEdgeFrame
    \/ PredictNothing

EdgeSpec == Tracking /\ [][EdgeNext]_vars

(* ================================================================ claims *)

\* C1: the stored yaw and the published rotation change only in a hand-detected cycle
\* whose gesture is OPEN, and every state published on a frame that is not OPEN (a
\* CLOSED segment, a no-hand frame) carries the yaw stored before that frame.
C1_YawOnlyOnOpen ==
    [][ /\ (lastRotationRef' # lastRotationRef \/ gestureState'.rotation # gestureState.rotation)
            => (last'.op = "predictLoop" /\ last'.kind = "hand"
                /\ gestureState'.gesture = "OPEN")
        /\ (last'.op = "predictLoop" /\ last'.emits = 1 /\ gestureState'.gesture # "OPEN")
            => (gestureState'.rotation = lastRotationRef
                /\ lastRotationRef' = lastRotationRef) ]_vars

\* a CLOSED frame published after an OPEN frame committed a yaw other than the default
C1_Witness ==
    /\ last.kind = "hand" /\ gestureState.gesture = "CLOSED"
    /\ lastRotationRef # 0 /\ gestureState.rotation = lastRotationRef

\* C2: the stored pitch and the published pitch change only in a hand-detected cycle
\* whose gesture is POINTING; every other step leaves the stored pitch as it was.
C2_PitchOnlyOnPointing ==
    [][ (lastPitchRef' # lastPitchRef \/ gestureState'.pitch # gestureState.pitch)
            => (last'.op = "predictLoop" /\ last'.kind = "hand"
                /\ gestureState'.gesture = "POINTING") ]_vars

\* a hand frame that is not POINTING published after a POINTING frame committed a pitch
C2_Witness ==
    /\ last.kind = "hand" /\ gestureState.gesture \in {"OPEN", "CLOSED", "VICTORY", "NEUTRAL"}
    /\ lastPitchRef # 0 /\ gestureState.pitch = lastPitchRef

\* C3: a cycle in which no hand is returned publishes isHandDetected = false, NEUTRAL,
\* pinchDistance 0.5 and the rotation and pitch stored before the cycle, and leaves the
\* stored values unchanged.
C3_NoHandDefault ==
    [][ last'.kind = "nohand"
            => /\ gestureState' = [isHandDetected |-> FALSE, gesture |-> "NEUTRAL",
                                   rotation |-> lastRotationRef, pitch |-> lastPitchRef,
                                   pinchDistance |-> PinchDefault]
               /\ lastRotationRef' = lastRotationRef
               /\ lastPitchRef' = lastPitchRef ]_vars

\* a no-hand frame after a yaw and a pitch other than 0 were committed
C3_Witness ==
    /\ last.kind = "nohand" /\ lastRotationRef # 0 /\ lastPitchRef # 0
    /\ gestureState.rotation = lastRotationRef /\ gestureState.pitch = lastPitchRef

\* C4: detectForVideo is called at most once while video.currentTime keeps one value.
C4_DetectOncePerFrame == detects.count <= 1

\* with two callbacks pending, a cycle is skipped for a frame whose detection threw
C4_Witness ==
    /\ last.kind = "skip" /\ detects.count = 1 /\ detects.threw
    /\ Cardinality(pendingRaf) >= 2

\* C5: a cycle in which detectForVideo throws still requests the next animation frame
\* and leaves lastRotationRef and lastPitchRef as they were.
C5_ThrowIsIsolated ==
    [][ last'.kind = "throw"
            => /\ last'.raf /\ requestRef' \in pendingRaf'
               /\ lastRotationRef' = lastRotationRef
               /\ lastPitchRef' = lastPitchRef ]_vars

\* a throwing cycle after a yaw was committed, with the next callback pending
C5_Witness ==
    /\ last.kind = "throw" /\ lastRotationRef # 0 /\ requestRef \in pendingRaf

\* C6: a cycle in which detectForVideo throws does not call onGestureUpdate; the
\* consumer keeps the state published before it.
C6_ThrowNotPublished ==
    [][ last'.kind = "throw" => (last'.emits = 0 /\ gestureState' = gestureState) ]_vars

\* a throwing cycle while the consumer holds a hand-detected state
C6_Witness == last.kind = "throw" /\ gestureState.isHandDetected

\* C7 (as claimed): every cycle in which detectForVideo is called and returns calls
\* onGestureUpdate exactly once.
C7_ExactlyOneEmission == (last.detect /\ last.kind # "throw") => last.emits = 1

\* C8: whenever detectForVideo is called, aiState is READY with a created landmarker
\* in landmarkerRef, cameraState is READY, and the video is neither paused nor ended.
C8_DetectOnlyWhenReady ==
    last.detect => /\ aiState = "READY"
                   /\ landmarkerRef # "null" /\ landmarkerRef \in created
                   /\ cameraState = "READY"
                   /\ ~paused /\ ~ended

\* a detection made after the Play overlay was clicked, its play() promise still pending
C8_Witness == last.detect /\ last.kind = "hand" /\ ~isPlaying /\ clickPlays > 0

\* C9 (as claimed): after the component is torn down no animation frame is requested.
C9_NoFrameAfterTeardown == phase = "unmounted" => ~last.raf

\* C10 (as claimed): once the component is torn down no stream is live, stored or not.
C10_StreamsStoppedAfterTeardown ==
    phase = "unmounted" => (liveStreams = {} /\ streamRef = 0)

\* C11 (as claimed): once the component is torn down, every landmarker that
\* createFromOptions has returned has been closed.
C11_LandmarkersClosedAfterTeardown == phase = "unmounted" => created \subseteq closed

\* the steps in which a result of the model initialization arrives
AiResultOps == {"FilesetResolved", "FilesetRejected", "GpuResolved", "GpuRejected",
                "CpuResolved", "CpuRejected"}

\* C12: a result of the model initialization that arrives after the teardown is not
\* applied: landmarkerRef and aiState keep the values they had at teardown.
C12_LateInitResultDiscarded ==
    [][ (phase = "unmounted" /\ last'.op \in AiResultOps)
            => (landmarkerRef' = landmarkerRef /\ aiState' = aiState) ]_vars

\* createFromOptions resolved after a teardown that found no landmarker to close
C12_Witness ==
    /\ phase = "unmounted" /\ last.op \in {"GpuResolved", "CpuResolved"}
    /\ created # {} /\ landmarkerRef = "null" /\ aiState = "LOADING"

\* the steps of the camera start and retry after the mount, and of its callbacks
CameraOps == {"handleManualStart", "GumResolved", "GumRejected", "LoadedMetadataPlay",
              "LoadedMetadataBlocked", "PlayResolved", "PlayRejected"}

\* C13: a camera start or retry and its callbacks leave aiState and landmarkerRef as
\* they were and start no model loading, and a result of the model initialization
\* leaves cameraState, isPlaying and the stream as they were.
C13_CameraAndModelIndependent ==
    [][ /\ last'.op \in CameraOps
            => UNCHANGED <<aiState, landmarkerRef, aiPc, created, closed>>
        /\ last'.op \in AiResultOps
            => UNCHANGED <<cameraState, isPlaying, camPc, streamRef, srcObject,
                           liveStreams, obtained>> ]_vars

\* a camera retry made while the model is ready
C13_Witness ==
    /\ last.op = "handleManualStart" /\ cameraState = "REQUESTING"
    /\ aiState = "READY" /\ landmarkerRef # "null" /\ aiPc = "done"

\* C14 (as claimed): while the component stays mounted, a failed model initialization
\* (aiState = ERROR) is followed by a retry that brings the model to READY.
C14_ModelErrorRecovers ==
    (aiState = "ERROR" /\ phase = "mounted") ~> (aiState = "READY" \/ phase = "unmounted")

\* no step of the component leaves aiState = ERROR: setAiState is called only by
\* initAI, which runs once, in the mount effect
AiErrorIsFinal == [][aiState = "ERROR" => aiState' = "ERROR"]_vars

\* C15 (as claimed): a getUserMedia rejection that is not a permission denial does not
\* end in PERM_DENIED, the state a permission denial ends in.
C15_TransientNotPermDenied ==
    (last.op = "GumRejected" /\ last.kind = "NotReadableError")
        => cameraState # "PERM_DENIED"

\* C16 (as claimed): aiState enters READY or ERROR only from LOADING, and cameraState
\* enters READY, PERM_DENIED or ERROR only from REQUESTING.
C16_TransitionShape ==
    [][ /\ (aiState' # aiState /\ aiState' \in {"READY", "ERROR"})
            => aiState = "LOADING"
        /\ (cameraState' # cameraState /\ cameraState' \in {"READY", "PERM_DENIED", "ERROR"})
            => cameraState = "REQUESTING" ]_vars

\* C16 (amended): aiState enters READY or ERROR only from LOADING; cameraState enters
\* READY or PERM_DENIED only from REQUESTING, and enters ERROR only from REQUESTING
\* or, when getUserMedia is missing, straight from IDLE; no terminal state is entered
\* from another terminal state.
C16_TransitionShapeAmended ==
    [][ /\ (aiState' # aiState /\ aiState' \in {"READY", "ERROR"})
            => aiState = "LOADING"
        /\ (cameraState' # cameraState /\ cameraState' \in {"READY", "PERM_DENIED"})
            => cameraState = "REQUESTING"
        /\ (cameraState' # cameraState /\ cameraState' = "ERROR")
            => \/ cameraState = "REQUESTING"
               \/ (cameraState = "IDLE" /\ ~gumSupported) ]_vars

\* the mount of a component in a browser without getUserMedia went from IDLE to ERROR
C16_Witness == last.op = "Mount" /\ cameraState = "ERROR" /\ ~gumSupported

\* the extension of the five fingers (thumb, index, middle, ring, pinky) of a hand
Ext(landmarks) == [f \in 1..5 |->
                      isFingerExtended(landmarks, Fingers[f].tip, Fingers[f].mcp)]

\* C17 (as claimed): a hand frame in which the index is the only extended finger and
\* the openness lies between 0.2 and 0.8 publishes POINTING.
C17_IndexAloneIsPointing ==
    ( /\ last.kind = "hand"
      /\ Ext(last.landmarks) = <<FALSE, TRUE, FALSE, FALSE, FALSE>>
      /\ gestureState.pinchDistance >= 200 /\ gestureState.pinchDistance <= 800 )
        => gestureState.gesture = "POINTING"

\* C18: a hand frame in which index and middle are extended and ring and pinky are not
\* publishes VICTORY, whatever the thumb does and whatever the openness is.
C18_IndexMiddleIsVictory ==
    ( /\ last.kind = "hand"
      /\ Ext(last.landmarks)[2] /\ Ext(last.landmarks)[3]
      /\ ~Ext(last.landmarks)[4] /\ ~Ext(last.landmarks)[5] )
        => gestureState.gesture = "VICTORY"

\* a VICTORY frame with the thumb extended and an openness above 0.8
C18_Witness ==
    /\ last.kind = "hand" /\ gestureState.gesture = "VICTORY"
    /\ Ext(last.landmarks) = <<TRUE, TRUE, TRUE, FALSE, FALSE>>
    /\ gestureState.pinchDistance > 800

\* every tip is as far from the wrist as the MCP joint of its finger
IsFist(landmarks) ==
    \A f \in 1..5 : Dist(landmarks[Fingers[f].tip], landmarks[WRIST])
                        = Dist(landmarks[Fingers[f].mcp], landmarks[WRIST])

\* C19 (as claimed): a closed fist publishes CLOSED and an openness below 0.2.
C19_FistClosedAndLowOpenness ==
    (last.kind = "hand" /\ IsFist(last.landmarks))
        => /\ gestureState.gesture = "CLOSED"
           /\ gestureState.pinchDistance # NaN /\ gestureState.pinchDistance < 200

\* C20 (as claimed): a hand frame whose openness exceeds 0.8 publishes OPEN, and
\* otherwise one whose openness is below 0.2 publishes CLOSED.
C20_OpennessDecidesOpenClosed ==
    last.kind = "hand"
        => IF gestureState.pinchDistance > 800
           THEN gestureState.gesture = "OPEN"
           ELSE (gestureState.pinchDistance # NaN /\ gestureState.pinchDistance < 200)
                    => gestureState.gesture = "CLOSED"

\* C21 (as claimed): every state published to the consumer has pinchDistance in [0,1].
C21_OpennessInUnitRange ==
    gestureState.pinchDistance >= 0 /\ gestureState.pinchDistance <= 1000

\* all coordinates of the hands of the model lie in [0,1]
HandsInImage ==
    \A h \in Hands \cup ExtraHands \cup EdgeHands : \A i \in LmIdx :
        h[i].x \in 0..Grid /\ h[i].y \in 0..Grid

\* C22: every published yaw and pitch lies in [-1,1]; an OPEN frame publishes the yaw
\* 1 - 2x of the wrist and a POINTING frame publishes the pitch 2y - 1 of the index tip.
C22_YawPitchRange ==
    /\ HandsInImage
    /\ gestureState.rotation \in (0 - Grid)..Grid
    /\ gestureState.pitch \in (0 - Grid)..Grid
    /\ (last.kind = "hand" /\ gestureState.gesture = "OPEN")
           => gestureState.rotation = Grid - 2 * last.landmarks[WRIST].x
    /\ (last.kind = "hand" /\ gestureState.gesture = "POINTING")
           => gestureState.pitch = 2 * last.landmarks[8].y - Grid

\* a pitch of 1 (index tip on the bottom edge) published after a yaw of -1 (wrist on
\* the right edge) was committed
C22_Witness ==
    /\ last.kind = "hand" /\ gestureState.gesture = "POINTING"
    /\ last.landmarks[8].y = Grid /\ gestureState.pitch = Grid
    /\ gestureState.rotation = 0 - Grid

\* C23: when detectForVideo returns more than one hand, the published state and the
\* stored yaw and pitch are those the first landmark set alone gives; the further
\* sets play no part.
C23_OnlyFirstHandUsed ==
    [][ (last'.kind = "hand" /\ last'.hands > 1)
            => /\ gestureState' = HandState(last'.landmarks)
               /\ lastRotationRef' = HandState(last'.landmarks).rotation
               /\ lastPitchRef' = HandState(last'.landmarks).pitch ]_vars

\* a two-hand result whose first hand shows VICTORY (the further hands of the model
\* show OPEN and POINTING)
C23_Witness ==
    /\ last.kind = "hand" /\ last.hands = 2
    /\ Gesture(last.landmarks) = "VICTORY" /\ gestureState.gesture = "VICTORY"
    /\ \A g \in ExtraHands : Gesture(g) \in {"OPEN", "POINTING"}

\* C24: after every emission the consumer state equals the emitted state in all five
\* fields, and it changes with an emission only.
C24_ConsumerHoldsLastEmission ==
    [][ /\ last'.emits > 0
            => gestureState' = IF last'.kind = "hand" THEN HandState(last'.landmarks)
                               ELSE NoHandState
        /\ gestureState' # gestureState => last'.emits > 0 ]_vars

\* a fist published after an OPEN frame had published another gesture and openness
C24_Witness ==
    /\ last.kind = "hand" /\ last.emits = 1
    /\ gestureState = [isHandDetected |-> TRUE, gesture |-> "CLOSED",
                       rotation |-> lastRotationRef, pitch |-> lastPitchRef,
                       pinchDistance |-> Openness(last.landmarks)]
    /\ IsFist(last.landmarks) /\ lastRotationRef # 0

\* C25: the stored yaw and pitch start at 0 and are written by a hand-detected predict
\* cycle only; a camera start, stop or retry, the model initialization, a skipped
\* cycle and a no-hand cycle leave them as they were.
C25_StoredWrittenByHandCycleOnly ==
    /\ (lastRotationRef = 0 /\ lastPitchRef = 0)
    /\ [][ (lastRotationRef' # lastRotationRef \/ lastPitchRef' # lastPitchRef)
              => (last'.op = "predictLoop" /\ last'.kind = "hand") ]_vars

\* stopCamera has run (at teardown) after a yaw and a pitch were committed
C25_Witness ==
    /\ last.op = "Unmount" /\ streamRef = 0
    /\ lastRotationRef # 0 /\ lastPitchRef # 0

\* C26: aiState becomes ERROR only when the fileset fails to load or the GPU and the
\* CPU creation both fail; a failed GPU creation is followed by a CPU attempt, whose
\* success stores the landmarker and sets READY; aiState READY implies a stored
\* landmarker.
C26_GpuFailureFallsBackToCpu ==
    [][ /\ (aiState' = "ERROR" /\ aiState # "ERROR")
            => \/ (last'.op = "FilesetRejected" /\ aiPc = "fileset")
               \/ (last'.op = "CpuRejected" /\ aiPc = "cpu")
        /\ last'.op = "GpuRejected"
            => (aiPc' = "cpu" /\ aiState' = aiState /\ landmarkerRef' = landmarkerRef)
        /\ (last'.op = "CpuResolved" /\ phase = "mounted")
            => (aiState' = "READY" /\ landmarkerRef' = "CPU")
        /\ aiState' = "READY" => landmarkerRef' \in created' ]_vars

\* the CPU landmarker is stored and READY after the GPU attempt failed
C26_Witness ==
    /\ last.op = "CpuResolved" /\ aiState = "READY"
    /\ landmarkerRef = "CPU" /\ created = {"CPU"}

\* C27: at every emission the published rotation and pitch equal the values stored in
\* lastRotationRef and lastPitchRef right after that cycle.
C27_PublishedEqualsStored ==
    [][ last'.emits > 0
            => /\ gestureState'.rotation = lastRotationRef'
               /\ gestureState'.pitch = lastPitchRef' ]_vars

\* an OPEN frame that changed the stored yaw and published the new value
C27_Witness ==
    /\ last.kind = "hand" /\ gestureState.gesture = "OPEN"
    /\ lastRotationRef = Rotation(last.landmarks) /\ lastRotationRef # 0
    /\ gestureState.rotation = lastRotationRef /\ gestureState.pitch = lastPitchRef

\* C28 (as claimed): at most one predictLoop animation-frame callback is pending.
C28_OneLoopChain == Cardinality(pendingRaf) <= 1

\* C29: once close() was called on the landmarker, no predictLoop callback, one pending
\* at the teardown included, calls detectForVideo or onGestureUpdate.
C29_NoDetectAfterClose ==
    [][ (closed # {} /\ last'.op = "predictLoop")
            => /\ ~last'.detect /\ last'.emits = 0
               /\ gestureState' = gestureState ]_vars

\* a callback that was pending at the teardown ran after the close, with the closed
\* landmarker still in landmarkerRef and a video time it has not processed, and
\* called nothing
C29_Witness ==
    /\ phase = "unmounted" /\ landmarkerRef \in closed
    /\ last.op = "predictLoop" /\ last.kind = "idle"
    /\ currentTime # lastVideoTime

====
